---- MODULE Spec2Model ----
(***************************************************************************)
(* Model of actix-toolbox's OpenID Connect handlers (src/src/oidc) running *)
(* behind actix-session's SessionMiddleware.                               *)
(*                                                                         *)
(* A request is served in three phases: the middleware loads the session   *)
(* state of the caller's session from the store into a request-local map   *)
(* (SessionStore::load), the handler works on that map through its         *)
(* `Session` handle, and the middleware writes the map back when the       *)
(* handler has changed it (SessionStore::update).  finish_login suspends   *)
(* once, at the token exchange with the identity provider.                 *)
(***************************************************************************)
EXTENDS Integers, Sequences, FiniteSets, TLC

\* ---------------------------------------------------------------- bounds
MaxLogins == 2      \* login calls that generate secrets
MaxRequests == 4    \* requests served in one behaviour

\* User sessions (cookies) and the requests in flight at once
Sessions == {"A", "B"}
Slots == {1, 2}
Attempts == 1..MaxLogins
AccessTokens == {"at-1", "at-2"}
Subjects == {"user-42"}
\* JWS algorithms of an ID token: one with a hash function, one without.
SigningAlgs == {"RS256", "NoHashAlg"}

\* ------------------------------------------------------- configuration
\* SessionKeys::default()
RequestKey == "oidc_request"
DataKey == "oidc_data"
SessionKeySet == {RequestKey, DataKey}
\* Config.post_auth_url of the example application
PostAuthUrl == "/"

\* ----------------------------------------------------- session values
\* A session maps keys to JSON strings.  A JSON string is modelled by the
\* value it encodes, tagged with its shape; Absent stands for "no entry".
Absent == [json |-> "absent"]
\* A value some other part of the application left under a key: it is not
\* the JSON of an AuthState.
Garbage == [json |-> "other"]
EmptySession == [k \in SessionKeySet |-> Absent]

\* struct AuthState, as generated by the k-th login: the k-th draw of
\* CsrfToken::new_random, PkceCodeChallenge::new_random_sha256 and
\* Nonce::new_random.  Draws are fresh: two logins never share a secret.
AuthState(k) == [csrf_token |-> k, pkce_code_verifier |-> k, nonce |-> k]

\* serde_json::to_string(&AuthState)
SerializeAuthState(a) ==
    [json |-> "AuthState", csrf_token |-> a.csrf_token,
     pkce_code_verifier |-> a.pkce_code_verifier, nonce |-> a.nonce]

\* serde_json::from_str::<AuthState>: fails on anything without the fields
CanDeserializeAuthState(v) == v.json = "AuthState"
DeserializeAuthState(v) ==
    [csrf_token |-> v.csrf_token, pkce_code_verifier |-> v.pkce_code_verifier,
     nonce |-> v.nonce]

\* struct UserData { token, claims }, serialized
SerializeUserData(claims, token) ==
    [json |-> "UserData", claims |-> claims, token |-> token]

\* ------------------------------------------------- identity provider
NoIdToken == [present |-> FALSE]
NoHash == [present |-> FALSE]
\* AccessTokenHash::from_token(access_token, alg)
AccessTokenHashFromToken(at, alg) == [present |-> TRUE, of |-> at, alg |-> alg]
AlgHasHash(alg) == alg = "RS256"

\* ID tokens the provider may return: sig_valid stands for signature,
\* issuer, audience and expiry all verifying against the client.
IdTokens(nonces) ==
    { [present |-> TRUE, sig_valid |-> sv, nonce |-> n, sub |-> su,
       at_hash |-> h, alg |-> al] :
        sv \in BOOLEAN, n \in nonces, su \in Subjects, al \in SigningAlgs,
        h \in {NoHash, AccessTokenHashFromToken("at-1", "RS256")} }

\* Outcomes of client.exchange_code(code).set_pkce_verifier(v).request_async
ExchangeError == [ok |-> FALSE]
TokenResponses(nonces) ==
    { [ok |-> TRUE, access_token |-> a, id_token |-> t] :
        a \in AccessTokens, t \in {NoIdToken} \cup IdTokens(nonces) }

\* ------------------------------------------------------ actix-session
\* Session::insert(key, value) with the value already serialized
SessionInsert(state, key, val) == [state EXCEPT ![key] = val]
\* Mutant: a read that leaves the entry in place (Session::get)
SessionRemoveKeeps(state, key) == state
\* Session::remove(key): the entry is taken out of the request-local map
SessionRemove(state, key) == [state EXCEPT ![key] = Absent]

\* --------------------------------------------------------- the state
VARIABLES
    store,        \* session store: session -> persisted session state
    task,         \* slot -> the request in flight (position, locals, session handle)
    done,         \* history: the request the latest step completed, if it completed one
    nextAttempt,  \* index of the next draw of the random generators
    started,      \* requests served so far
    issuedTo,     \* history: attempt -> session whose login generated it
    obtained,     \* history: attempt -> finish_login calls that read its AuthState
    serial,       \* client: TRUE when it sends a request only after the previous answer
    recovery,     \* history: session -> how far it is in recovering from a failed callback
    recoveryBefore, \* history: recovery of the session of `done` before that call
    actor,        \* ws: WebSocketActor: "running", "stopped" (ctx.stop() ran), "dropped"
    mailbox,      \* ws: the actor's mailbox: calls whose WrappedMessage is queued
    calls,        \* ws: the Sender.send / Sender.close calls made, with their outcome
    wsWritten,    \* ws: messages written to the websocket (ctx.write_raw)
    incoming,     \* ws: frames the peer has sent so far
    futures,      \* ws: items held by the spawned SendFutures, in the order of the context's list
    spawned,      \* ws: items of SendFutures spawned since the context last merged its list
    cursor,       \* ws: position in the list of the next future the context's pass polls, 0 between passes
    waiters,      \* ws: items whose channel.send waits for capacity, first come first
    permits,      \* ws: items whose channel.send has been handed a slot of the buffer
    channel,      \* ws: the mpsc channel's buffer
    rx,           \* ws: the Receiver: "idle", "waiting" (inside recv), "dropped"
    received,     \* ws: what Receiver.recv has returned, in order
    droppedAt,    \* ws history: frames that had arrived when the Receiver was dropped
    stoppedBy,    \* ws history: what made the actor stop
    rows,         \* db: session_key -> row of DBSession
    now,          \* db: Utc::now()
    dbCalls,      \* db: slot -> the DBSessionStore call in flight (position, arguments, locals)
    dbStarted,    \* db: DBSessionStore calls made so far
    dbDone        \* db history: the call the latest step completed and its result

oidcVars == <<store, task, done, nextAttempt, started, issuedTo, obtained>>
serialVars == <<serial, recovery, recoveryBefore>>
wsHistory == <<droppedAt, stoppedBy>>
\* The context's spawned futures; the mpsc channel and its semaphore
ctxVars == <<futures, spawned, cursor>>
chanVars == <<waiters, permits, channel>>
wsVars == <<actor, mailbox, calls, wsWritten, incoming, ctxVars, chanVars, rx,
            received, wsHistory>>
dbVars == <<rows, now, dbCalls, dbStarted, dbDone>>
\* The variables the concurrent OIDC requests leave alone
otherVars == <<serialVars, wsVars, dbVars>>
vars == <<oidcVars, otherVars>>

NoAuth == [csrf_token |-> 0, pkce_code_verifier |-> 0, nonce |-> 0]
NoParams == [code |-> "", state |-> 0]
NoResult == [kind |-> "none"]
NoResponse == [ok |-> FALSE, none |-> TRUE]
\* ses is the handler's Session; ses0 the session as the middleware loaded it;
\* changed is SessionStatus::Changed; auth, resp are the handler's locals;
\* log lists the steps the handler has run; exchanged the token requests sent.
IdleTask ==
    [pc |-> "idle", handler |-> "", sid |-> "", ses |-> EmptySession,
     ses0 |-> EmptySession, changed |-> FALSE, params |-> NoParams, auth |-> NoAuth,
     resp |-> NoResponse, result |-> NoResult, log |-> <<>>, exchanged |-> <<>>]

Codes == {"abc"}

\* No finish_login has failed in the session
NoRecovery == [phase |-> "none", attempt |-> 0]

\* The actor has not stopped
NotStopped == [cause |-> "none", frame |-> 0]
\* ws::start has returned: the actor runs, nothing sent or received yet
WsStart ==
    /\ droppedAt = 0
    /\ stoppedBy = NotStopped
    /\ actor = "running"
    /\ mailbox = <<>>
    /\ calls = <<>>
    /\ wsWritten = <<>>
    /\ incoming = 0
    /\ futures = <<>>
    /\ spawned = <<>>
    /\ cursor = 0
    /\ waiters = <<>>
    /\ permits = {}
    /\ channel = <<>>
    /\ rx = "idle"
    /\ received = <<>>

\* Keys the session table may hold rows for
SessionKeys == {"key-1", "key-2"}
NoRow == [present |-> FALSE]
NoDbCall == [op |-> "none"]
\* Calls of the store in flight at once
DbSlots == {1, 2}
IdleCall == [pc |-> "idle", key |-> "", state |-> "", ttl |-> 0, at |-> 0]
\* DBSessionStore::new on an empty table
DbStart ==
    /\ rows = [k \in SessionKeys |-> NoRow]
    /\ now = 0
    /\ dbCalls = [c \in DbSlots |-> IdleCall]
    /\ dbStarted = 0
    /\ dbDone = NoDbCall

\* Session "A" may already hold, under the request key, a value written by
\* some other handler of the application.
Init ==
    /\ store \in { [s \in Sessions |->
                       IF s \in G THEN SessionInsert(EmptySession, RequestKey, Garbage)
                       ELSE EmptySession] : G \in {{}, {"A"}} }
    /\ task = [r \in Slots |-> IdleTask]
    /\ done = IdleTask
    /\ nextAttempt = 1
    /\ started = 0
    /\ issuedTo = [k \in Attempts |-> ""]
    /\ obtained = [k \in Attempts |-> 0]
    /\ serial = FALSE
    /\ recovery = [s \in Sessions |-> NoRecovery]
    /\ recoveryBefore = NoRecovery
    /\ WsStart
    /\ DbStart

\* The OIDC server with empty sessions and no request served
OidcStart ==
    /\ store = [s \in Sessions |-> EmptySession]
    /\ task = [r \in Slots |-> IdleTask]
    /\ done = IdleTask
    /\ nextAttempt = 1
    /\ started = 0
    /\ issuedTo = [k \in Attempts |-> ""]
    /\ obtained = [k \in Attempts |-> 0]
    /\ serial = FALSE
    /\ recovery = [s \in Sessions |-> NoRecovery]
    /\ recoveryBefore = NoRecovery

\* ------------------------------------------------ results of handlers
Err(e) == [kind |-> "error", error |-> e]
\* Redirect::to(auth_url).temporary()
RedirectTo(url) == [kind |-> "redirect", status |-> 307, location |-> url]
\* HttpResponse::Found().append_header((LOCATION, post_auth_url))
Found(url) == [kind |-> "redirect", status |-> 302, location |-> url]

\* PkceCodeChallenge::new_random_sha256: the challenge of a verifier
CodeChallenge(verifier) == [s256_of |-> verifier]
\* client.authorize_url(...).set_pkce_challenge(...).url()
AuthUrl(k) ==
    [state |-> AuthState(k).csrf_token,
     code_challenge |-> CodeChallenge(AuthState(k).pkce_code_verifier),
     nonce |-> AuthState(k).nonce]

\* --------------------------------------------------------------- login
\* Mutant: login keeps an AuthState the session already holds
LoginHandlerKeepsFirst(ses, k, insertOk) ==
    IF insertOk
    THEN [ses |-> IF CanDeserializeAuthState(ses[RequestKey]) THEN ses
                  ELSE SessionInsert(ses, RequestKey, SerializeAuthState(AuthState(k))),
          result |-> RedirectTo(AuthUrl(k)), log |-> <<"insert">>]
    ELSE [ses |-> ses, result |-> Err("SessionInsert"), log |-> <<"insert">>]

\* Mutant: login stores the first login's PKCE verifier with its new
\* CSRF token and nonce
LoginHandlerStaleVerifier(ses, k, insertOk) ==
    IF insertOk
    THEN [ses |-> SessionInsert(ses, RequestKey, SerializeAuthState(
                      [AuthState(k) EXCEPT
                          !.pkce_code_verifier = AuthState(1).pkce_code_verifier])),
          result |-> RedirectTo(AuthUrl(k)), log |-> <<"insert">>]
    ELSE [ses |-> ses, result |-> Err("SessionInsert"), log |-> <<"insert">>]

\* Mutant: login ignores the outcome of Session::insert
LoginHandlerRedirectsAnyway(ses, k, insertOk) ==
    [ses |-> IF insertOk
             THEN SessionInsert(ses, RequestKey, SerializeAuthState(AuthState(k)))
             ELSE ses,
     result |-> RedirectTo(AuthUrl(k)), log |-> <<"insert">>]

\* pub async fn login: the whole handler; insertOk is the outcome of
\* Session::insert, which marks the session changed before it serializes.
LoginHandler(ses, k, insertOk) ==
    IF insertOk
    THEN [ses |-> SessionInsert(ses, RequestKey, SerializeAuthState(AuthState(k))),
          result |-> RedirectTo(AuthUrl(k)), log |-> <<"insert">>]
    ELSE [ses |-> ses, result |-> Err("SessionInsert"), log |-> <<"insert">>]

\* ------------------------------------------------------- finish_login
\* Mutant: the state comparison is dropped
StateMatchesAlways(state, csrf_token) == TRUE
\* state.secret() != csrf_token.secret()
StateMatches(state, csrf_token) == state = csrf_token

\* Mutant: a missing or undecodable state is reported as InvalidState
FinishLoginReadInvalid(ses, params) ==
    LET removed == ses[RequestKey]
        ses1 == SessionRemove(ses, RequestKey)
    IN  IF removed = Absent \/ ~CanDeserializeAuthState(removed)
        THEN [ses |-> ses1, auth |-> NoAuth, next |-> "respond",
              result |-> Err("InvalidState"), log |-> <<"remove">>]
        ELSE LET auth == DeserializeAuthState(removed) IN
             IF ~StateMatches(params.state, auth.csrf_token)
             THEN [ses |-> ses1, auth |-> auth, next |-> "respond",
                   result |-> Err("InvalidState"), log |-> <<"remove", "state">>]
             ELSE [ses |-> ses1, auth |-> auth, next |-> "exchange",
                   result |-> NoResult, log |-> <<"remove", "state">>]

\* Mutant: on a state mismatch the AuthState is put back for a retry
FinishLoginReadRestores(ses, params) ==
    LET removed == ses[RequestKey]
        ses1 == SessionRemove(ses, RequestKey)
    IN  IF removed = Absent \/ ~CanDeserializeAuthState(removed)
        THEN [ses |-> ses1, auth |-> NoAuth, next |-> "respond",
              result |-> Err("MissingState"), log |-> <<"remove">>]
        ELSE LET auth == DeserializeAuthState(removed) IN
             IF ~StateMatches(params.state, auth.csrf_token)
             THEN [ses |-> ses, auth |-> auth, next |-> "respond",
                   result |-> Err("InvalidState"), log |-> <<"remove", "state">>]
             ELSE [ses |-> ses1, auth |-> auth, next |-> "exchange",
                   result |-> NoResult, log |-> <<"remove", "state">>]

\* Lines 65-80: read and remove the AuthState, then compare the states.
\* next = "exchange" when the handler goes on to the token exchange.
FinishLoginRead(ses, params) ==
    LET removed == ses[RequestKey]
        ses1 == SessionRemove(ses, RequestKey)
    IN  IF removed = Absent \/ ~CanDeserializeAuthState(removed)
        THEN [ses |-> ses1, auth |-> NoAuth, next |-> "respond",
              result |-> Err("MissingState"), log |-> <<"remove">>]
        ELSE LET auth == DeserializeAuthState(removed) IN
             IF ~StateMatches(params.state, auth.csrf_token)
             THEN [ses |-> ses1, auth |-> auth, next |-> "respond",
                   result |-> Err("InvalidState"), log |-> <<"remove", "state">>]
             ELSE [ses |-> ses1, auth |-> auth, next |-> "exchange",
                   result |-> NoResult, log |-> <<"remove", "state">>]

\* Mutant: the nonce is not verified
IdTokenVerifiesSignatureOnly(id_token, nonce) == id_token.sig_valid
\* id_token.claims(&client.id_token_verifier(), &nonce): signature and
\* standard claims, then the nonce
IdTokenVerifies(id_token, nonce) == id_token.sig_valid /\ id_token.nonce = nonce
\* CoreIdTokenClaims of a verified ID token
Claims(id_token) ==
    [sub |-> id_token.sub, nonce |-> id_token.nonce, at_hash |-> id_token.at_hash]

\* Mutant: the hash is computed but never compared
AccessTokenHashCheckNoCompare(claims, token) ==
    IF claims.at_hash.present /\ ~AlgHasHash(token.id_token.alg)
    THEN "CreateAccessTokenHash"
    ELSE "ok"

\* Lines 96-109: "ok", or the error of the access token hash check
AccessTokenHashCheck(claims, token) ==
    IF claims.at_hash.present
    THEN IF ~AlgHasHash(token.id_token.alg) THEN "CreateAccessTokenHash"
         ELSE IF AccessTokenHashFromToken(token.access_token, token.id_token.alg)
                     # claims.at_hash
              THEN "InvalidAccessTokenHash"
              ELSE "ok"
    ELSE "ok"

\* Mutant: the UserData is stored as soon as the ID token verifies, before
\* the access token hash is checked
FinishLoginVerifyInsertFirst(ses, auth, token, insertOk) ==
    IF ~token.ok
    THEN [ses |-> ses, result |-> Err("FailedRequestToken"), log |-> <<"exchange">>]
    ELSE IF ~token.id_token.present
    THEN [ses |-> ses, result |-> Err("MissingIdToken"),
          log |-> <<"exchange", "id_token">>]
    ELSE IF ~IdTokenVerifies(token.id_token, auth.nonce)
    THEN [ses |-> ses, result |-> Err("InvalidIdToken"),
          log |-> <<"exchange", "id_token", "claims">>]
    ELSE LET claims == Claims(token.id_token)
             hash == AccessTokenHashCheck(claims, token)
             written == SessionInsert(ses, DataKey, SerializeUserData(claims, token))
             base == <<"exchange", "id_token", "claims", "insert">>
                        \o (IF claims.at_hash.present THEN <<"at_hash">> ELSE <<>>)
         IN  IF ~insertOk
             THEN [ses |-> ses, result |-> Err("SessionInsert"), log |-> base]
             ELSE IF hash # "ok"
             THEN [ses |-> written, result |-> Err(hash), log |-> base]
             ELSE [ses |-> written, result |-> Found(PostAuthUrl), log |-> base]

\* Mutant: the access token hash is compared before the ID token is verified
FinishLoginVerifyHashFirst(ses, auth, token, insertOk) ==
    IF ~token.ok
    THEN [ses |-> ses, result |-> Err("FailedRequestToken"), log |-> <<"exchange">>]
    ELSE IF ~token.id_token.present
    THEN [ses |-> ses, result |-> Err("MissingIdToken"),
          log |-> <<"exchange", "id_token">>]
    ELSE LET claims == Claims(token.id_token)
             hash == AccessTokenHashCheck(claims, token)
             early == <<"exchange", "id_token">>
                        \o (IF claims.at_hash.present THEN <<"at_hash">> ELSE <<>>)
         IN  IF hash # "ok"
             THEN [ses |-> ses, result |-> Err(hash), log |-> early]
             ELSE IF ~IdTokenVerifies(token.id_token, auth.nonce)
             THEN [ses |-> ses, result |-> Err("InvalidIdToken"),
                   log |-> Append(early, "claims")]
             ELSE IF ~insertOk
             THEN [ses |-> ses, result |-> Err("SessionInsert"),
                   log |-> early \o <<"claims", "insert">>]
             ELSE [ses |-> SessionInsert(ses, DataKey, SerializeUserData(claims, token)),
                   result |-> Found(PostAuthUrl),
                   log |-> early \o <<"claims", "insert">>]

\* Mutant: a call that fails after the exchange puts the AuthState back
FinishLoginVerifyRestoresState(ses, auth, token, insertOk) ==
    LET kept == SessionInsert(ses, RequestKey, SerializeAuthState(auth)) IN
    IF ~token.ok
    THEN [ses |-> kept, result |-> Err("FailedRequestToken"), log |-> <<"exchange">>]
    ELSE IF ~token.id_token.present
    THEN [ses |-> kept, result |-> Err("MissingIdToken"),
          log |-> <<"exchange", "id_token">>]
    ELSE IF ~IdTokenVerifies(token.id_token, auth.nonce)
    THEN [ses |-> kept, result |-> Err("InvalidIdToken"),
          log |-> <<"exchange", "id_token", "claims">>]
    ELSE LET claims == Claims(token.id_token)
             hash == AccessTokenHashCheck(claims, token)
             base == <<"exchange", "id_token", "claims">>
                        \o (IF claims.at_hash.present THEN <<"at_hash">> ELSE <<>>)
         IN  IF hash # "ok"
             THEN [ses |-> kept, result |-> Err(hash), log |-> base]
             ELSE IF ~insertOk
             THEN [ses |-> kept, result |-> Err("SessionInsert"),
                   log |-> Append(base, "insert")]
             ELSE [ses |-> SessionInsert(ses, DataKey, SerializeUserData(claims, token)),
                   result |-> Found(PostAuthUrl), log |-> Append(base, "insert")]

\* Lines 82-125: from the provider's answer to the handler's result.
FinishLoginVerify(ses, auth, token, insertOk) ==
    IF ~token.ok
    THEN [ses |-> ses, result |-> Err("FailedRequestToken"), log |-> <<"exchange">>]
    ELSE IF ~token.id_token.present
    THEN [ses |-> ses, result |-> Err("MissingIdToken"),
          log |-> <<"exchange", "id_token">>]
    ELSE IF ~IdTokenVerifies(token.id_token, auth.nonce)
    THEN [ses |-> ses, result |-> Err("InvalidIdToken"),
          log |-> <<"exchange", "id_token", "claims">>]
    ELSE LET claims == Claims(token.id_token)
             hash == AccessTokenHashCheck(claims, token)
             base == <<"exchange", "id_token", "claims">>
                        \o (IF claims.at_hash.present THEN <<"at_hash">> ELSE <<>>)
         IN  IF hash # "ok"
             THEN [ses |-> ses, result |-> Err(hash), log |-> base]
             ELSE IF ~insertOk
             THEN [ses |-> ses, result |-> Err("SessionInsert"),
                   log |-> Append(base, "insert")]
             ELSE [ses |-> SessionInsert(ses, DataKey, SerializeUserData(claims, token)),
                   result |-> Found(PostAuthUrl), log |-> Append(base, "insert")]

\* Mutant: a failed token request is sent again
NextAfterVerifyRetries(result) ==
    IF result = Err("FailedRequestToken") THEN "exchange" ELSE "respond"
\* Where finish_login goes with the result of lines 82-125: every `?` and
\* `return` leaves the handler, none loops back to the exchange.
NextAfterVerify(result) == "respond"

\* impl Display for FinishLoginError: the text before the wrapped error
Display(e) ==
    CASE e = "MissingState" -> "State is missing from user session"
      [] e = "InvalidState" -> "State in user session is invalid"
      [] e = "FailedRequestToken" -> "Failed to request token: "
      [] e = "MissingIdToken" -> "Provider didn't respond with an ID token"
      [] e = "InvalidIdToken" -> "The ID token didn't pass the verification: "
      [] e = "CreateAccessTokenHash" -> "Couldn't generate the access token's hash: "
      [] e = "InvalidAccessTokenHash" -> "The access token's hash doesn't match"
      [] e = "SessionInsert" -> "Failed to set token in user session: "

\* impl ResponseError for FinishLoginError {}: the trait's defaults, status
\* 500 and the Display text as the body
InternalServerError == 500
StatusCode(e) == InternalServerError
ErrorResponse(e) == [status |-> StatusCode(e), body |-> Display(e)]

\* Whether finish_login gets as far as Session::insert with this answer
ReachesInsert(ses, auth, token) ==
    LET log == FinishLoginVerify(ses, auth, token, TRUE).log
    IN  log[Len(log)] = "insert"

\* ------------------------------------------------------------ actions
\* SessionMiddleware, before the handler: SessionStore::load for the
\* caller's session, handed to the handler as its Session.  Slots are
\* interchangeable: a request takes the lowest idle one.
Load(r, s, h, params) ==
    /\ task[r].pc = "idle"
    /\ \A q \in Slots : q < r => task[q].pc # "idle"
    /\ serial => \A q \in Slots : task[q].pc = "idle"
    /\ started < MaxRequests
    /\ started' = started + 1
    /\ task' = [task EXCEPT ![r] =
                  [IdleTask EXCEPT !.pc = h, !.handler = h, !.sid = s,
                                   !.ses = store[s], !.ses0 = store[s],
                                   !.params = params]]
    /\ done' = IdleTask
    /\ UNCHANGED <<store, nextAttempt, issuedTo, obtained, otherVars>>

\* SessionMiddleware, after the handler: a changed session is written back
\* whole (SessionStore::update), also when the handler returned an error.
\* Mutant: one session state shared by every session key
PersistShared(t) == IF t.changed THEN [s \in Sessions |-> t.ses] ELSE store
Persist(t) == IF t.changed THEN [store EXCEPT ![t.sid] = t.ses] ELSE store

\* History of a client that sends one request at a time: a failed
\* finish_login leaves its session "failed", a login answered with the
\* redirect after that leaves it "relogin" with that login's attempt, a
\* finish_login that succeeds clears it.
Recovered(t) ==
    [recovery EXCEPT ![t.sid] =
        IF t.handler = "login"
        THEN IF @.phase = "none" \/ t.result.kind = "error" THEN @
             ELSE [phase |-> "relogin", attempt |-> t.auth.csrf_token]
        ELSE IF t.result.kind = "error" THEN [phase |-> "failed", attempt |-> 0]
             ELSE NoRecovery]

\* The handler of slot r has returned as t: the session is persisted and
\* the response sent.
Complete(r, t) ==
    /\ store' = Persist(t)
    /\ done' = [t EXCEPT !.pc = "done"]
    /\ task' = [task EXCEPT ![r] = IdleTask]
    /\ IF serial
       THEN /\ recoveryBefore' = recovery[t.sid]
            /\ recovery' = Recovered(t)
       ELSE UNCHANGED <<recovery, recoveryBefore>>
    /\ UNCHANGED serial

\* GET /login
LoadLogin(r) ==
    /\ nextAttempt + Cardinality({q \in Slots : task[q].pc = "login"}) <= MaxLogins
    /\ \E s \in Sessions : Load(r, s, "login", NoParams)

\* GET /finish_login?code=..&state=..: the state is a CSRF token some login
\* has issued, or a foreign value (0)
LoadFinishLogin(r) ==
    \E s \in Sessions, c \in Codes, st \in 0..(nextAttempt - 1) :
        Load(r, s, "finish_login", [code |-> c, state |-> st])

Login(r) ==
    /\ task[r].pc = "login"
    /\ \E insertOk \in BOOLEAN :
          LET out == LoginHandler(task[r].ses, nextAttempt, insertOk)
              t == [task[r] EXCEPT !.ses = out.ses, !.changed = TRUE,
                                   !.auth = AuthState(nextAttempt),
                                   !.result = out.result, !.log = out.log]
          IN  Complete(r, t)
    /\ issuedTo' = [issuedTo EXCEPT ![nextAttempt] = task[r].sid]
    /\ nextAttempt' = nextAttempt + 1
    /\ UNCHANGED <<started, obtained, wsVars, dbVars>>

\* finish_login up to its first suspension: it returns an error, or awaits
\* the token exchange.
FinishLogin(r) ==
    /\ task[r].pc = "finish_login"
    /\ LET out == FinishLoginRead(task[r].ses, task[r].params)
           t == [task[r] EXCEPT !.pc = out.next, !.ses = out.ses, !.changed = TRUE,
                                !.auth = out.auth, !.result = out.result,
                                !.log = out.log]
       IN  /\ IF out.next = "exchange"
              THEN /\ task' = [task EXCEPT ![r] = t]
                   /\ done' = IdleTask
                   /\ UNCHANGED <<store, serialVars>>
              ELSE Complete(r, t)
           /\ obtained' = IF out.auth = NoAuth THEN obtained
                          ELSE [obtained EXCEPT ![out.auth.csrf_token] = @ + 1]
    /\ UNCHANGED <<nextAttempt, started, issuedTo, wsVars, dbVars>>

\* The provider answers the token request; finish_login runs to its end.
ExchangeCode(r) ==
    /\ task[r].pc = "exchange"
    /\ \E token \in {ExchangeError} \cup TokenResponses(0..(nextAttempt - 1)),
          insertOk \in BOOLEAN :
          /\ insertOk \/ ReachesInsert(task[r].ses, task[r].auth, token)
          /\ LET out == FinishLoginVerify(task[r].ses, task[r].auth, token, insertOk)
                 t == [task[r] EXCEPT !.ses = out.ses, !.resp = token,
                                      !.result = out.result,
                                      !.log = task[r].log \o out.log,
                                      !.exchanged = Append(task[r].exchanged,
                                          [code |-> task[r].params.code,
                                        pkce_verifier |-> task[r].auth.pkce_code_verifier])]
             IN  IF NextAfterVerify(out.result) = "exchange"
                 THEN /\ task' = [task EXCEPT ![r] = [t EXCEPT !.ses = task[r].ses]]
                      /\ done' = IdleTask
                      /\ UNCHANGED <<store, serialVars>>
                 ELSE Complete(r, t)
    /\ UNCHANGED <<nextAttempt, started, issuedTo, obtained, wsVars, dbVars>>

Next ==
    \E r \in Slots :
        \/ LoadLogin(r)
        \/ LoadFinishLogin(r)
        \/ Login(r)
        \/ FinishLogin(r)
        \/ ExchangeCode(r)

Spec == Init /\ [][Next]_vars

\* examples/openid_connect: GET / shows the claims of the logged-in user,
\* or sends the user to /login
Index(ses) ==
    IF ses[DataKey] # Absent
    THEN [status |-> 200, body |-> ses[DataKey].claims]
    ELSE [status |-> 307, location |-> "/login"]

\* ------------------------------------------ requests sent one by one
\* One browser following the redirects: it sends a request when the
\* previous one has been answered.  The server's steps are those of Next.
SerialInit ==
    /\ store \in { [s \in Sessions |->
                       IF s \in G THEN SessionInsert(EmptySession, RequestKey, Garbage)
                       ELSE EmptySession] : G \in {{}, {"A"}} }
    /\ task = [r \in Slots |-> IdleTask]
    /\ done = IdleTask
    /\ nextAttempt = 1
    /\ started = 0
    /\ issuedTo = [k \in Attempts |-> ""]
    /\ obtained = [k \in Attempts |-> 0]
    /\ serial = TRUE
    /\ recovery = [s \in Sessions |-> NoRecovery]
    /\ recoveryBefore = NoRecovery
    /\ WsStart
    /\ DbStart

SerialSpec == SerialInit /\ [][Next]_vars

\* ------------------------------------------------------------ websocket
\* One websocket after ws::start: the WebSocketActor with its mailbox, the
\* Sender (an Addr of the actor, as are its clones), the mpsc channel from
\* the actor to the Receiver.  Frames of the peer are numbered in the order
\* they arrive; the message of a send call is the call's number.
CHANNEL_BUFFER == 16
MaxCalls == 3       \* Sender.send / Sender.close calls
MaxIncoming == 3    \* frames the peer sends
MaxRecv == 4        \* Receiver.recv calls

\* recv's None
None == 0

\* Mutant: the mailbox is still served after ctx.stop()
MailboxPolledWhileStopping(a) == a # "dropped"
\* The context handles mailbox messages and polls spawned futures only
\* while it is neither stopping nor stopped
MailboxPolled(a) == a = "running"

\* Mutant: an mpsc::Sender outlives the actor
SendersNeverDropped(a) == FALSE
\* Every mpsc::Sender (the actor's field, the clones inside SendFutures) is
\* owned by the actor and its context, and dropped with them
SendersDropped(a) == a = "dropped"

\* Addr::send(WrappedMessage) as called by Sender::send and Sender::close:
\* the message is queued in the mailbox, or refused when the mailbox is gone
AddrSend(kind) ==
    /\ Len(calls) < MaxCalls
    /\ IF actor = "dropped"
       THEN /\ calls' = Append(calls, [kind |-> kind, status |-> "err",
                                      afterClose |-> TRUE])
            /\ mailbox' = mailbox
       ELSE /\ calls' = Append(calls, [kind |-> kind, status |-> "queued",
                                      afterClose |-> actor # "running"])
            /\ mailbox' = Append(mailbox, Len(calls) + 1)
    /\ UNCHANGED <<actor, wsWritten, incoming, ctxVars, chanVars, rx, received, wsHistory>>
    /\ UNCHANGED <<oidcVars, serialVars, dbVars>>

\* Sender::send
SenderSend == AddrSend("Send")
\* Sender::close
SenderClose == AddrSend("Close")

\* Handler<WrappedMessage>::handle for the oldest queued message; its
\* caller's future resolves to Ok(()).  The context serves the mailbox
\* before each pass over its futures.
HandleWrapped ==
    /\ MailboxPolled(actor)
    /\ cursor = 0
    /\ mailbox # <<>>
    /\ LET i == Head(mailbox) IN
          /\ mailbox' = Tail(mailbox)
          /\ calls' = [calls EXCEPT ![i].status = "ok"]
          /\ IF calls[i].kind = "Send"
             THEN /\ wsWritten' = Append(wsWritten, i)
                  /\ actor' = actor
                  /\ stoppedBy' = stoppedBy
             ELSE /\ wsWritten' = wsWritten
                  /\ actor' = "stopped"
                  /\ stoppedBy' = IF actor = "running"
                                  THEN [cause |-> "close", frame |-> 0] ELSE stoppedBy
    /\ UNCHANGED <<incoming, ctxVars, chanVars, rx, received, droppedAt>>
    /\ UNCHANGED <<oidcVars, serialVars, dbVars>>

\* StreamHandler::handle: a frame of the peer is handed to a new
\* SendFuture, which ctx.spawn keeps aside until the pass over the list is
\* over.  The frame stream is the first item of the list: it is polled
\* when a pass begins.
StreamHandle ==
    /\ MailboxPolled(actor)
    /\ cursor = 0
    /\ incoming < MaxIncoming
    /\ incoming' = incoming + 1
    /\ spawned' = Append(spawned, incoming + 1)
    /\ UNCHANGED <<actor, mailbox, calls, wsWritten, futures, cursor, chanVars, rx, received,
                   wsHistory>>
    /\ UNCHANGED <<oidcVars, serialVars, dbVars>>

\* Vec::swap_remove: the context takes a finished future out of its list
\* by moving the last one into its place
SwapRemove(list, i) ==
    [j \in 1..(Len(list) - 1) |-> IF j = i /\ i < Len(list) THEN list[Len(list)]
                                  ELSE list[j]]

\* Slots of the buffer neither filled nor handed to a waiting send
Available == CHANNEL_BUFFER - Len(channel) - Cardinality(permits)

\* channel.send(item) polled with the Receiver alive: it is Ready when it
\* has been handed a slot, or when it asks for the first time and a slot
\* is available; otherwise it waits in the queue of the semaphore
SendReady(f) ==
    \/ f \in permits
    \/ /\ \A w \in 1..Len(waiters) : waiters[w] # f
       /\ Available > 0

\* Mutant: a failed forward is ignored
OnSendResultIgnored(failed, a) == a
\* SendFuture::poll on Poll::Ready(result): ctx.stop() if result.is_err()
OnSendResult(failed, a) == IF failed THEN "stopped" ELSE a

\* The pass has polled; list is what it leaves of the context's list and
\* next the position it goes on at.  At the end of the list, or when the
\* actor has stopped, the pass is over: the futures spawned meanwhile are
\* merged into the list.
PassGoesOn(list, next) ==
    IF actor' = "running" /\ next <= Len(list)
    THEN /\ futures' = list
         /\ cursor' = next
         /\ spawned' = spawned
    ELSE /\ futures' = list \o spawned
         /\ cursor' = 0
         /\ spawned' = <<>>

\* SendFuture::poll of the future the pass is at.  With the Receiver gone
\* channel.send(item) fails, which stops the actor; a future that is Ready
\* is swap-removed and the pass goes on at the same position; one that is
\* Pending stays and the pass goes to the next.
PollSendFuture ==
    /\ MailboxPolled(actor)
    /\ futures # <<>>
    /\ LET idx == IF cursor = 0 THEN 1 ELSE cursor
           f == futures[idx]
       IN  IF rx = "dropped"
           THEN /\ actor' = OnSendResult(TRUE, actor)
                /\ stoppedBy' = IF actor' = actor THEN stoppedBy
                                ELSE [cause |-> "forward", frame |-> f]
                /\ PassGoesOn(SwapRemove(futures, idx), idx)
                /\ UNCHANGED chanVars
           ELSE IF SendReady(f)
           THEN /\ actor' = OnSendResult(FALSE, actor)
                /\ stoppedBy' = stoppedBy
                /\ channel' = Append(channel, f)
                /\ permits' = permits \ {f}
                /\ waiters' = waiters
                /\ PassGoesOn(SwapRemove(futures, idx), idx)
           ELSE /\ actor' = actor
                /\ stoppedBy' = stoppedBy
                /\ waiters' = IF \E w \in 1..Len(waiters) : waiters[w] = f
                              THEN waiters ELSE Append(waiters, f)
                /\ UNCHANGED <<permits, channel>>
                /\ PassGoesOn(futures, idx + 1)
    /\ UNCHANGED <<mailbox, calls, wsWritten, incoming, rx, received, droppedAt>>
    /\ UNCHANGED <<oidcVars, serialVars, dbVars>>

\* A pass over an empty list: the futures spawned since the last pass are
\* merged into the list, and the context makes another pass
MergeSpawned ==
    /\ MailboxPolled(actor)
    /\ cursor = 0
    /\ futures = <<>>
    /\ spawned # <<>>
    /\ futures' = spawned
    /\ spawned' = <<>>
    /\ UNCHANGED <<actor, mailbox, calls, wsWritten, incoming, cursor, chanVars, rx, received,
                   wsHistory>>
    /\ UNCHANGED <<oidcVars, serialVars, dbVars>>

\* The peer closes: the frame stream ends and StreamHandler::finished
\* stops the actor
PeerClose ==
    /\ actor = "running"
    /\ cursor = 0
    /\ actor' = "stopped"
    /\ stoppedBy' = [cause |-> "peer", frame |-> 0]
    /\ UNCHANGED <<mailbox, calls, wsWritten, incoming, ctxVars, chanVars, rx, received,
                   droppedAt>>
    /\ UNCHANGED <<oidcVars, serialVars, dbVars>>

\* The stopped actor is dropped with its context: queued messages are
\* discarded and their callers get Err(MailboxError::Closed), pending
\* SendFutures are dropped with their items
DropActor ==
    /\ actor = "stopped"
    /\ actor' = "dropped"
    /\ mailbox' = <<>>
    /\ calls' = [i \in DOMAIN calls |->
                    IF calls[i].status = "queued"
                    THEN [calls[i] EXCEPT !.status = "err"] ELSE calls[i]]
    /\ futures' = <<>>
    /\ spawned' = <<>>
    /\ cursor' = 0
    /\ waiters' = <<>>
    /\ permits' = {}
    /\ UNCHANGED <<wsWritten, incoming, channel, rx, received, wsHistory>>
    /\ UNCHANGED <<oidcVars, serialVars, dbVars>>

\* Receiver::recv is called
RecvCall ==
    /\ rx = "idle"
    /\ Len(received) < MaxRecv
    /\ rx' = "waiting"
    /\ UNCHANGED <<actor, mailbox, calls, wsWritten, incoming, ctxVars, chanVars, received,
                   wsHistory>>
    /\ UNCHANGED <<oidcVars, serialVars, dbVars>>

\* Receiver::recv returns: the oldest buffered item, whose slot goes to the
\* send waiting longest if one waits, or None when the buffer is empty and
\* no mpsc::Sender is left.  The Receiver may run on another thread than
\* the actor, between two polls of a pass.
RecvReturn ==
    /\ rx = "waiting"
    /\ IF channel # <<>>
       THEN /\ received' = Append(received, [item |-> Head(channel),
                                             closed |-> actor # "running"])
            /\ channel' = Tail(channel)
            /\ IF waiters # <<>>
               THEN /\ permits' = permits \cup {Head(waiters)}
                    /\ waiters' = Tail(waiters)
               ELSE UNCHANGED <<waiters, permits>>
       ELSE /\ SendersDropped(actor)
            /\ received' = Append(received, [item |-> None, closed |-> TRUE])
            /\ UNCHANGED chanVars
    /\ rx' = "idle"
    /\ UNCHANGED <<actor, mailbox, calls, wsWritten, incoming, ctxVars, wsHistory>>
    /\ UNCHANGED <<oidcVars, serialVars, dbVars>>

\* The Receiver is dropped: the channel is closed, its buffer discarded,
\* and every send that waits or holds a slot fails when polled
DropReceiver ==
    /\ rx = "idle"
    /\ rx' = "dropped"
    /\ channel' = <<>>
    /\ waiters' = <<>>
    /\ permits' = {}
    /\ droppedAt' = incoming
    /\ UNCHANGED <<actor, mailbox, calls, wsWritten, incoming, ctxVars, received, stoppedBy>>
    /\ UNCHANGED <<oidcVars, serialVars, dbVars>>

WsNext ==
    \/ SenderSend
    \/ SenderClose
    \/ HandleWrapped
    \/ StreamHandle
    \/ PollSendFuture
    \/ MergeSpawned
    \/ PeerClose
    \/ DropActor
    \/ RecvCall
    \/ RecvReturn
    \/ DropReceiver

WsInit == OidcStart /\ WsStart /\ DbStart

WsSpec == WsInit /\ [][WsNext]_vars

\* The runtime finishes the response of a stopped actor and drops it, and
\* wakes a Receiver whose recv can return
WsFairSpec == WsSpec /\ WF_vars(DropActor) /\ WF_vars(RecvReturn)

\* ------------------------------------------------------ DBSessionStore
\* The table of DBSession rows behind DBSessionStore and the clock.
MaxTime == 2     \* ticks of the clock
MaxDbCalls == 2  \* calls of the store
\* Session states (HashMap<String, String>) handed to the store
SessionStates == {"state-1", "state-2"}
\* Times to live handed to the store
Ttls == {1, 2}

\* serde_json::to_string(&session_state)
ToJson(state) == [json |-> state]
\* serde_json::from_str(&state)
FromJson(str) == str.json
\* load's result for a session without state
NoState == [some |-> FALSE]
Some(state) == [some |-> TRUE, state |-> state]
\* save's results
OkKey(key) == [ok |-> TRUE, key |-> key]
SaveErrorOther == [ok |-> FALSE, err |-> "SaveError::Other"]

\* Mutant: load ignores expired_after
ExpiredNever(row, t) == FALSE
\* s.expired_after.lt(&now)
Expired(row, t) == row.expired_after < t

\* DBSessionStore::load that read the clock as t: what it returns when its
\* query finds table
load(table, key, t) ==
    IF table[key].present
    THEN IF Expired(table[key], t) THEN NoState
         ELSE Some(FromJson(table[key].session_state))
    ELSE NoState

\* DBSessionStore::save that read the clock as t: its INSERT adds the row,
\* or fails on the primary key when a row has that key
insert(table, key, state, ttl, t) ==
    IF table[key].present
    THEN table
    ELSE [table EXCEPT ![key] = [present |-> TRUE, session_state |-> ToJson(state),
                                 expired_after |-> t + ttl]]

\* DBSessionStore::update that read the clock as t: the SQL UPDATE changes
\* the row with that key if there is one
update(table, key, state, ttl, t) ==
    IF table[key].present
    THEN [table EXCEPT ![key] = [present |-> TRUE, session_state |-> ToJson(state),
                                 expired_after |-> t + ttl]]
    ELSE table

\* DBSessionStore::update_ttl that read the clock as t
update_ttl(table, key, ttl, t) ==
    IF table[key].present
    THEN [table EXCEPT ![key].expired_after = t + ttl]
    ELSE table

\* A call of the store begins in slot c, up to its first await; slots are
\* interchangeable: a call takes the lowest idle one
DbBegin(c, call) ==
    /\ dbCalls[c].pc = "idle"
    /\ \A q \in DbSlots : q < c => dbCalls[q].pc # "idle"
    /\ dbStarted < MaxDbCalls
    /\ dbStarted' = dbStarted + 1
    /\ dbCalls' = [dbCalls EXCEPT ![c] = call]
    /\ dbDone' = NoDbCall
    /\ UNCHANGED <<rows, now>>
    /\ UNCHANGED <<oidcVars, serialVars, wsVars>>

\* The call of slot c returns result
DbReturn(c, op, result) ==
    /\ dbDone' = [op |-> op, key |-> dbCalls[c].key, ttl |-> dbCalls[c].ttl,
                  at |-> dbCalls[c].at, result |-> result]
    /\ dbCalls' = [dbCalls EXCEPT ![c] = IdleCall]
    /\ UNCHANGED <<now, dbStarted>>
    /\ UNCHANGED <<oidcVars, serialVars, wsVars>>

\* DBSessionStore::load is called: it reads the clock and sends its query
DbLoadBegin(c) ==
    \E k \in SessionKeys :
        DbBegin(c, [IdleCall EXCEPT !.pc = "query", !.key = k, !.at = now])

\* load's query is answered: the expiry of the row found is tested against
\* the clock as read before the query
DbLoad(c) ==
    /\ dbCalls[c].pc = "query"
    /\ DbReturn(c, "load", load(rows, dbCalls[c].key, dbCalls[c].at))
    /\ UNCHANGED rows

\* DBSessionStore::save is called: it reads the clock, draws a random key
\* and asks whether a row has it
DbSaveBegin(c) ==
    \E k \in SessionKeys, st \in SessionStates, ttl \in Ttls :
        DbBegin(c, [pc |-> "exists", key |-> k, state |-> st, ttl |-> ttl, at |-> now])

\* save's existence query is answered: with a row of that key it draws
\* another key and asks again, without one it sends the INSERT
DbSaveExists(c) ==
    /\ dbCalls[c].pc = "exists"
    /\ IF rows[dbCalls[c].key].present
       THEN \E k \in SessionKeys : dbCalls' = [dbCalls EXCEPT ![c].key = k]
       ELSE dbCalls' = [dbCalls EXCEPT ![c].pc = "insert"]
    /\ dbDone' = NoDbCall
    /\ UNCHANGED <<rows, now, dbStarted>>
    /\ UNCHANGED <<oidcVars, serialVars, wsVars>>

\* save's INSERT is answered: Err(SaveError::Other) when a row took the key
\* since the existence query, else the key
DbSave(c) ==
    /\ dbCalls[c].pc = "insert"
    /\ LET call == dbCalls[c] IN
          /\ rows' = insert(rows, call.key, call.state, call.ttl, call.at)
          /\ DbReturn(c, "save", IF rows[call.key].present THEN SaveErrorOther
                                 ELSE OkKey(call.key))

\* DBSessionStore::update is called: it reads the clock and sends the UPDATE
DbUpdateBegin(c) ==
    \E k \in SessionKeys, st \in SessionStates, ttl \in Ttls :
        DbBegin(c, [pc |-> "update", key |-> k, state |-> st, ttl |-> ttl, at |-> now])

\* update's UPDATE is answered; the call returns Ok(session_key)
DbUpdate(c) ==
    /\ dbCalls[c].pc = "update"
    /\ LET call == dbCalls[c] IN
          /\ rows' = update(rows, call.key, call.state, call.ttl, call.at)
          /\ DbReturn(c, "update", Some(call.state))

\* DBSessionStore::update_ttl is called: it reads the clock and sends the
\* UPDATE
DbUpdateTtlBegin(c) ==
    \E k \in SessionKeys, ttl \in Ttls :
        DbBegin(c, [IdleCall EXCEPT !.pc = "update_ttl", !.key = k, !.ttl = ttl,
                                    !.at = now])

\* update_ttl's UPDATE is answered
DbUpdateTtl(c) ==
    /\ dbCalls[c].pc = "update_ttl"
    /\ LET call == dbCalls[c] IN
          /\ rows' = update_ttl(rows, call.key, call.ttl, call.at)
          /\ DbReturn(c, "update_ttl", NoState)

\* DBSessionStore::delete is called and sends the DELETE
DbDeleteBegin(c) ==
    \E k \in SessionKeys :
        DbBegin(c, [IdleCall EXCEPT !.pc = "delete", !.key = k])

\* delete's DELETE is answered
DbDelete(c) ==
    /\ dbCalls[c].pc = "delete"
    /\ rows' = [rows EXCEPT ![dbCalls[c].key] = NoRow]
    /\ DbReturn(c, "delete", NoState)

\* Time passes
Tick ==
    /\ now < MaxTime
    /\ now' = now + 1
    /\ UNCHANGED <<rows, dbCalls, dbStarted, dbDone>>
    /\ UNCHANGED <<oidcVars, serialVars, wsVars>>

DbNext ==
    \/ \E c \in DbSlots :
          \/ DbLoadBegin(c)
          \/ DbLoad(c)
          \/ DbSaveBegin(c)
          \/ DbSaveExists(c)
          \/ DbSave(c)
          \/ DbUpdateBegin(c)
          \/ DbUpdate(c)
          \/ DbUpdateTtlBegin(c)
          \/ DbUpdateTtl(c)
          \/ DbDeleteBegin(c)
          \/ DbDelete(c)
    \/ Tick

DbInit == OidcStart /\ WsStart /\ DbStart

DbSpec == DbInit /\ [][DbNext]_vars

\* ------------------------------------------------------------ claims
\* The call the latest step completed
FinishDone == done.pc = "done" /\ done.handler = "finish_login"
LoginDone == done.pc = "done" /\ done.handler = "login"
\* Every copy of a session's state: the persisted ones and the handlers'
SessionCopies ==
    {store[s] : s \in Sessions} \cup {task[r].ses : r \in Slots} \cup {done.ses}

\* The steps of a finish_login call that wrote the data key, in order
ChecksBeforeWrite(withHash) ==
    <<"remove", "state", "exchange", "id_token", "claims">>
        \o (IF withHash THEN <<"at_hash">> ELSE <<>>) \o <<"insert">>

\* What must be true of a stored UserData, whoever holds it
VerifiedUserData(d) ==
    /\ d.json = "UserData"
    /\ d.token.ok
    /\ d.token.id_token.present
    /\ d.token.id_token.sig_valid
    /\ d.claims = Claims(d.token.id_token)
    /\ d.claims.at_hash.present =>
          /\ AlgHasHash(d.token.id_token.alg)
          /\ d.claims.at_hash
                = AccessTokenHashFromToken(d.token.access_token, d.token.id_token.alg)

\* C1: UserData is under the data key only if the finish_login call that
\* wrote it passed the state match, the token exchange, the ID token
\* verification and, when the claims carry an access token hash, the hash
\* comparison, in this order; no call holds a written data key earlier.
C1_DataOnlyAfterAllChecks ==
    /\ \A ses \in SessionCopies :
          ses[DataKey] # Absent => VerifiedUserData(ses[DataKey])
    /\ \A r \in Slots : task[r].ses[DataKey] = task[r].ses0[DataKey]
    /\ (FinishDone /\ done.ses[DataKey] # done.ses0[DataKey]) =>
          /\ done.params.state = done.auth.csrf_token
          /\ done.resp.ok
          /\ done.resp.id_token.present
          /\ done.resp.id_token.sig_valid
          /\ done.resp.id_token.nonce = done.auth.nonce
          /\ done.ses[DataKey]
                = SerializeUserData(Claims(done.resp.id_token), done.resp)
          /\ done.log = ChecksBeforeWrite(done.resp.id_token.at_hash.present)
          /\ Len(done.exchanged) = 1

\* A call wrote UserData whose claims carry an access token hash
C1_Witness ==
    /\ FinishDone
    /\ done.ses[DataKey] # done.ses0[DataKey]
    /\ done.resp.id_token.at_hash.present

\* C2: a finish_login call whose state parameter differs from the stored
\* CSRF token returns InvalidState and sends no token request; a call
\* awaiting the token exchange has matched the state.
C2_MismatchNeverExchanges ==
    /\ (FinishDone /\ done.auth # NoAuth
           /\ done.params.state # done.auth.csrf_token) =>
          /\ done.result = Err("InvalidState")
          /\ done.exchanged = <<>>
          /\ done.log = <<"remove", "state">>
    /\ \A r \in Slots :
          task[r].pc = "exchange" =>
             /\ task[r].params.state = task[r].auth.csrf_token
             /\ task[r].exchanged = <<>>

\* A call carrying an issued CSRF token other than the stored one was rejected
C2_Witness ==
    /\ FinishDone
    /\ done.auth # NoAuth
    /\ done.params.state # done.auth.csrf_token
    /\ done.params.state # 0

\* C3: each AuthState written by login is obtained by at most one
\* finish_login call, also among calls that run concurrently.
C3_ConsumedAtMostOnce == \A k \in Attempts : obtained[k] <= 1

\* The session as the call found it held the AuthState of attempt j
LoadedAuthState(t, j) == t.ses0[RequestKey] = SerializeAuthState(AuthState(j))

\* C4: a login overwrites whatever AuthState the session held, so the
\* session holds the state of one attempt only; a finish_login that finds
\* the state of attempt j and carries the CSRF token of another attempt of
\* that session is rejected with InvalidState and writes nothing.
C4_SecondLoginInvalidatesFirst ==
    /\ (LoginDone /\ done.result.kind = "redirect") =>
          /\ done.ses[RequestKey] = SerializeAuthState(done.auth)
          /\ store[done.sid][RequestKey] = SerializeAuthState(done.auth)
          /\ done.result.location.state = done.auth.csrf_token
    /\ \A i, j \in Attempts :
          (FinishDone /\ LoadedAuthState(done, j) /\ i # j
              /\ done.params.state = AuthState(i).csrf_token) =>
             /\ done.result = Err("InvalidState")
             /\ done.ses[DataKey] = done.ses0[DataKey]
             /\ done.exchanged = <<>>

\* login, a second login that replaced a stored AuthState, then a callback
\* with the first CSRF token on the same session
C4_Witness ==
    \E i, j \in Attempts :
        /\ i < j
        /\ issuedTo[i] = done.sid
        /\ issuedTo[j] = done.sid
        /\ FinishDone
        /\ LoadedAuthState(done, j)
        /\ done.params.state = AuthState(i).csrf_token
        /\ done.result = Err("InvalidState")

\* C5: a finish_login call on a session without a decodable AuthState under
\* the request key returns MissingState, whatever its parameters are, and
\* does nothing else.
C5_MissingState ==
    (FinishDone /\ (done.ses0[RequestKey] = Absent
                      \/ ~CanDeserializeAuthState(done.ses0[RequestKey]))) =>
       /\ done.result = Err("MissingState")
       /\ done.exchanged = <<>>
       /\ done.ses[DataKey] = done.ses0[DataKey]

\* A callback with an issued CSRF token met an undecodable value
C5_Witness ==
    /\ FinishDone
    /\ done.ses0[RequestKey] = Garbage
    /\ done.params.state # 0
    /\ done.result = Err("MissingState")

\* The call got a token response with an ID token that verifies
TokenVerified(t) ==
    /\ t.resp.ok
    /\ t.resp.id_token.present
    /\ t.resp.id_token.sig_valid
    /\ t.resp.id_token.nonce = t.auth.nonce

\* C6: when the verified claims carry an access token hash other than the
\* hash of the returned access token, finish_login returns
\* InvalidAccessTokenHash and the data key is as the call found it.
C6_AccessTokenHashMismatch ==
    (FinishDone /\ Len(done.exchanged) = 1 /\ TokenVerified(done)
        /\ done.resp.id_token.at_hash.present
        /\ AlgHasHash(done.resp.id_token.alg)
        /\ done.resp.id_token.at_hash.of # done.resp.access_token) =>
       /\ done.result = Err("InvalidAccessTokenHash")
       /\ done.ses[DataKey] = done.ses0[DataKey]
       /\ store[done.sid][DataKey] = done.ses0[DataKey]

C6_Witness ==
    /\ FinishDone
    /\ Len(done.exchanged) = 1
    /\ TokenVerified(done)
    /\ done.resp.id_token.at_hash.present
    /\ done.resp.id_token.at_hash.of # done.resp.access_token
    /\ done.result = Err("InvalidAccessTokenHash")

\* C7: an ID token whose nonce is not the stored one fails with
\* InvalidIdToken, also when its signature is valid, and the data key is
\* as the call found it.
C7_NonceMismatch ==
    (FinishDone /\ Len(done.exchanged) = 1 /\ done.resp.ok
        /\ done.resp.id_token.present
        /\ done.resp.id_token.nonce # done.auth.nonce) =>
       /\ done.result = Err("InvalidIdToken")
       /\ done.ses[DataKey] = done.ses0[DataKey]
       /\ store[done.sid][DataKey] = done.ses0[DataKey]

\* A validly signed ID token with the nonce of another login was rejected
C7_Witness ==
    /\ FinishDone
    /\ Len(done.exchanged) = 1
    /\ done.resp.ok
    /\ done.resp.id_token.present
    /\ done.resp.id_token.sig_valid
    /\ done.resp.id_token.nonce \in Attempts
    /\ done.resp.id_token.nonce # done.auth.nonce
    /\ done.result = Err("InvalidIdToken")

\* C8: a callback with the stored CSRF token, answered by an ID token that
\* verifies against the stored nonce and carries no access token hash,
\* succeeds (unless the session write fails): the response redirects to the
\* post-authentication URL, the data key holds the UserData with the claims
\* of that ID token, and the request key is absent.
C8_SuccessfulLogin ==
    \A k \in Attempts :
        (FinishDone /\ LoadedAuthState(done, k)
            /\ done.params.state = AuthState(k).csrf_token
            /\ Len(done.exchanged) = 1
            /\ done.resp.ok /\ done.resp.id_token.present
            /\ done.resp.id_token.sig_valid
            /\ done.resp.id_token.nonce = AuthState(k).nonce
            /\ ~done.resp.id_token.at_hash.present
            /\ done.result # Err("SessionInsert")) =>
           /\ done.result = [kind |-> "redirect", status |-> 302,
                             location |-> PostAuthUrl]
           /\ done.ses[DataKey].json = "UserData"
           /\ done.ses[DataKey].claims.sub = done.resp.id_token.sub
           /\ done.ses[DataKey].claims.nonce = AuthState(k).nonce
           /\ done.ses[DataKey].token = done.resp
           /\ done.ses[RequestKey] = Absent
           /\ store[done.sid] = done.ses
           /\ Index(store[done.sid]).status = 200
           /\ Index(store[done.sid]).body.sub = done.resp.id_token.sub

C8_Witness ==
    /\ FinishDone
    /\ done.result.kind = "redirect"
    /\ ~done.resp.id_token.at_hash.present
    /\ store[done.sid][DataKey].json = "UserData"
    /\ store[done.sid][RequestKey] = Absent

\* C9: when finish_login has read a stored AuthState and fails, the request
\* key is absent afterwards and the data key is as the call found it.
C9_FailureConsumesState ==
    (FinishDone /\ done.auth # NoAuth /\ done.result.kind = "error") =>
       /\ done.ses[RequestKey] = Absent
       /\ done.ses[DataKey] = done.ses0[DataKey]
       /\ store[done.sid][RequestKey] = Absent
       /\ store[done.sid][DataKey] = done.ses0[DataKey]

\* A call failed on a session that held UserData from an earlier login
C9_Witness ==
    /\ FinishDone
    /\ done.auth # NoAuth
    /\ done.result = Err("InvalidState")
    /\ done.ses0[DataKey] # Absent
    /\ store[done.sid][DataKey] = done.ses0[DataKey]

\* C10: login returns its redirect only with the AuthState of the
\* authorization URL stored under the request key; when the state is not
\* stored, login returns the session insert error and no redirect.
C10_NoRedirectWithoutState ==
    LoginDone =>
       /\ done.result.kind = "redirect" =>
             /\ done.ses[RequestKey] = SerializeAuthState(done.auth)
             /\ done.result = RedirectTo(AuthUrl(done.auth.csrf_token))
       /\ done.ses[RequestKey] # SerializeAuthState(done.auth) =>
             /\ done.result = Err("SessionInsert")
             /\ done.ses[RequestKey] = done.ses0[RequestKey]

\* A login failed to store its AuthState
C10_Witness ==
    /\ LoginDone
    /\ done.result = Err("SessionInsert")
    /\ done.ses[RequestKey] # SerializeAuthState(done.auth)

\* Occurrences of a step in a handler's log
Count(log, step) == Cardinality({i \in 1..Len(log) : log[i] = step})

\* C11: a finish_login call sends at most one token request and verifies
\* an ID token at most once; a failed exchange or verification ends the
\* call with that error.
C11_NoRetry ==
    /\ \A r \in Slots : task[r].exchanged = <<>> /\ Count(task[r].log, "exchange") = 0
    /\ FinishDone =>
          /\ Len(done.exchanged) <= 1
          /\ Count(done.log, "exchange") = Len(done.exchanged)
          /\ Count(done.log, "claims") <= 1
          /\ (Len(done.exchanged) = 1 /\ ~done.resp.ok) =>
                done.result = Err("FailedRequestToken")
          /\ (Len(done.exchanged) = 1 /\ done.resp.ok /\ done.resp.id_token.present
                /\ ~done.resp.id_token.sig_valid) =>
                done.result = Err("InvalidIdToken")

\* A call ended with the error of its one failed token request
C11_Witness ==
    /\ FinishDone
    /\ Len(done.exchanged) = 1
    /\ ~done.resp.ok
    /\ done.result = Err("FailedRequestToken")

\* C12: the responses for InvalidState and for InvalidAccessTokenHash are
\* the same (status and message).
C12_StateMismatchIndistinguishable ==
    (FinishDone /\ done.result = Err("InvalidAccessTokenHash")) =>
       ErrorResponse(done.result.error) = ErrorResponse("InvalidState")

\* C13: MissingState is answered with a 4xx status, a failed token
\* exchange or session write with a 5xx status.
C13_ErrorStatusClasses ==
    (FinishDone /\ done.result.kind = "error") =>
       /\ done.result.error = "MissingState" =>
             ErrorResponse(done.result.error).status \in 400..499
       /\ done.result.error \in {"FailedRequestToken", "SessionInsert"} =>
             ErrorResponse(done.result.error).status \in 500..599

\* The first step of the table that fails for a completed call, read off
\* what the call was given (the loaded session, the parameters, the
\* provider's answer), with the steps run up to it; step 0: none of 1-6.
FirstFailure(t) ==
    LET stored == t.ses0[RequestKey] IN
    IF stored = Absent \/ stored.json # "AuthState"
    THEN [step |-> 1, error |-> "MissingState", log |-> <<"remove">>]
    ELSE IF t.params.state # stored.csrf_token
    THEN [step |-> 2, error |-> "InvalidState", log |-> <<"remove", "state">>]
    ELSE IF ~t.resp.ok
    THEN [step |-> 3, error |-> "FailedRequestToken",
          log |-> <<"remove", "state", "exchange">>]
    ELSE IF ~t.resp.id_token.present
    THEN [step |-> 4, error |-> "MissingIdToken",
          log |-> <<"remove", "state", "exchange", "id_token">>]
    ELSE IF ~t.resp.id_token.sig_valid \/ t.resp.id_token.nonce # stored.nonce
    THEN [step |-> 5, error |-> "InvalidIdToken",
          log |-> <<"remove", "state", "exchange", "id_token", "claims">>]
    ELSE IF t.resp.id_token.at_hash.present /\ t.resp.id_token.alg # "RS256"
    THEN [step |-> 6, error |-> "CreateAccessTokenHash",
          log |-> <<"remove", "state", "exchange", "id_token", "claims", "at_hash">>]
    ELSE IF t.resp.id_token.at_hash.present
              /\ t.resp.id_token.at_hash.of # t.resp.access_token
    THEN [step |-> 6, error |-> "InvalidAccessTokenHash",
          log |-> <<"remove", "state", "exchange", "id_token", "claims", "at_hash">>]
    ELSE [step |-> 0, error |-> "",
          log |-> ChecksBeforeWrite(t.resp.id_token.at_hash.present)]

\* C17: finish_login fails fast in table order: it returns the error of
\* the first step that fails and has run the steps up to that one only;
\* when steps 1-6 pass it runs the session write and returns its error or
\* the redirect.
C17_FailFastInOrder ==
    FinishDone =>
       LET f == FirstFailure(done) IN
       /\ done.log = f.log
       /\ f.step \in 1..6 =>
             /\ done.result = Err(f.error)
             /\ done.ses[DataKey] = done.ses0[DataKey]
             /\ Len(done.exchanged) = (IF f.step <= 2 THEN 0 ELSE 1)
       /\ f.step = 0 =>
             /\ done.result \in {Err("SessionInsert"), Found(PostAuthUrl)}
             /\ done.result = Err("SessionInsert") <=>
                   done.ses[DataKey] = done.ses0[DataKey]
                      /\ done.ses0[DataKey] # SerializeUserData(Claims(done.resp.id_token), done.resp)

\* An ID token that fails verification and also carries a wrong access
\* token hash was rejected at the verification
C17_Witness ==
    /\ FinishDone
    /\ Len(done.exchanged) = 1
    /\ done.resp.ok /\ done.resp.id_token.present
    /\ ~done.resp.id_token.sig_valid
    /\ done.resp.id_token.at_hash.present
    /\ done.resp.id_token.at_hash.of # done.resp.access_token
    /\ done.result = Err("InvalidIdToken")

\* C18: the secrets one finish_login call uses come from one login call:
\* the PKCE verifier sent in the exchange and the nonce the ID token is
\* verified against are those of the login k whose authorization URL
\* carried the callback's state and the challenge of that verifier.
C18_SecretsOfOneLogin ==
    (FinishDone /\ Len(done.exchanged) = 1) =>
       \E k \in 1..(nextAttempt - 1) :
          /\ AuthUrl(k).state = done.params.state
          /\ done.auth.csrf_token = AuthState(k).csrf_token
          /\ done.exchanged[1].pkce_verifier = AuthState(k).pkce_code_verifier
          /\ AuthUrl(k).code_challenge = CodeChallenge(done.exchanged[1].pkce_verifier)
          /\ done.auth.nonce = AuthState(k).nonce
          /\ done.result = Found(PostAuthUrl) =>
                done.resp.id_token.nonce = AuthState(k).nonce
          /\ (done.resp.ok /\ done.resp.id_token.present
                /\ done.resp.id_token.nonce # AuthState(k).nonce) =>
                done.result = Err("InvalidIdToken")

\* The callback of the second login succeeded after a first login had
\* generated other secrets
C18_Witness ==
    /\ FinishDone
    /\ Len(done.exchanged) = 1
    /\ done.params.state = 2
    /\ done.exchanged[1].pkce_verifier = AuthState(2).pkce_code_verifier
    /\ done.result = Found(PostAuthUrl)

\* A token response that passes every check of a call holding login k's
\* AuthState
ValidResponse(resp, k) ==
    /\ resp.ok
    /\ resp.id_token.present
    /\ resp.id_token.sig_valid
    /\ resp.id_token.nonce = AuthState(k).nonce
    /\ resp.id_token.at_hash.present =>
          /\ AlgHasHash(resp.id_token.alg)
          /\ resp.id_token.at_hash
                = AccessTokenHashFromToken(resp.access_token, resp.id_token.alg)

\* C19: for a client sending one request at a time, a session recovers
\* from a failed finish_login: after a new login on it, the callback with that login's
\* CSRF token and a valid provider response succeeds and writes the
\* UserData (unless the session write fails); a callback without a new
\* login fails with MissingState.
C19_RecoveryAfterFailure ==
    FinishDone =>
       /\ (recoveryBefore.phase = "relogin"
             /\ done.params.state = AuthState(recoveryBefore.attempt).csrf_token
             /\ ValidResponse(done.resp, recoveryBefore.attempt)
             /\ done.result # Err("SessionInsert")) =>
            /\ done.result = Found(PostAuthUrl)
            /\ store[done.sid][DataKey]
                 = SerializeUserData(Claims(done.resp.id_token), done.resp)
            /\ recovery[done.sid] = NoRecovery
       /\ recoveryBefore.phase = "failed" => done.result = Err("MissingState")

\* A callback that had read its AuthState failed, then a new login and its
\* callback logged the user in
C19_Witness ==
    /\ FinishDone
    /\ recoveryBefore.phase = "relogin"
    /\ recoveryBefore.attempt = 2
    /\ done.params.state = 2
    /\ obtained[1] = 1
    /\ done.result = Found(PostAuthUrl)
    /\ store[done.sid][DataKey].json = "UserData"

\* What a completed finish_login has read and matched belongs to its own
\* session, and a CSRF token issued to another session gets it nowhere
OwnAuthStateOnly ==
    FinishDone =>
       /\ done.auth # NoAuth => issuedTo[done.auth.csrf_token] = done.sid
       /\ (done.params.state # 0 /\ issuedTo[done.params.state] # done.sid) =>
             /\ done.result.kind = "error"
             /\ done.exchanged = <<>>
             /\ done.ses[DataKey] = done.ses0[DataKey]
\* A step that completes a finish_login leaves every other session as it was
OtherSessionsUntouched ==
    (done'.pc = "done" /\ done'.handler = "finish_login") =>
       \A s \in Sessions \ {done'.sid} : store'[s] = store[s]

\* C20: sessions are isolated: finish_login on one session reads, matches
\* and removes only an AuthState a login stored in that session; a callback
\* carrying a CSRF token that a login stored in another session fails and
\* leaves the other session's keys unchanged.
C20_SessionsIsolated == []OwnAuthStateOnly /\ [][OtherSessionsUntouched]_vars

\* A callback on one session carried the CSRF token still stored in another
C20_Witness ==
    /\ FinishDone
    /\ \E k \in Attempts :
          /\ done.params.state = AuthState(k).csrf_token
          /\ issuedTo[k] \in Sessions \ {done.sid}
          /\ store[issuedTo[k]][RequestKey] = SerializeAuthState(AuthState(k))
    /\ done.result.kind = "error"

\* The items recv has returned, without the None results
Items(rec) == SelectSeq(rec, LAMBDA e : e.item # None)
\* The frames forwarded to the Receiver so far: returned by recv or buffered
Delivered ==
    [i \in 1..Len(Items(received)) |-> Items(received)[i].item] \o channel
\* recv returns None only when no item is buffered and the actor is gone;
\* after a None every result is None; what it returns and what is buffered
\* are frames the actor received, each once
RecvThenNone ==
    /\ \A i \in 1..Len(received) :
          received[i].item = None =>
             /\ \A j \in i..Len(received) : received[j].item = None
             /\ channel = <<>>
             /\ actor = "dropped"
    /\ rx # "dropped" =>
          /\ \A i \in 1..Len(Delivered) : Delivered[i] \in 1..incoming
          /\ \A i, j \in 1..Len(Delivered) : i < j => Delivered[i] # Delivered[j]

\* C14: once the websocket is closed, Receiver.recv returns the buffered
\* messages and then None: a recv waiting on a closed websocket returns.
C14_RecvEndsAfterClose ==
    /\ []RecvThenNone
    /\ (rx = "waiting" /\ actor # "running") ~> (rx # "waiting")

\* After the close, recv returned a buffered message and then None
C14_Witness ==
    \E i \in 1..(Len(received) - 1) :
        /\ received[i].item # None
        /\ received[i].closed
        /\ received[i + 1].item = None

\* C15: a Sender.send or Sender.close called after the websocket was closed
\* never returns Ok, has returned Err once the actor is dropped, and its
\* message is not written to the websocket.
C15_NoSendAfterClose ==
    \A i \in 1..Len(calls) :
        calls[i].afterClose =>
           /\ calls[i].status # "ok"
           /\ actor = "dropped" => calls[i].status = "err"
           /\ \A w \in 1..Len(wsWritten) : wsWritten[w] # i

\* A send and a close were called after the close, one of them before the
\* actor was dropped, and both returned Err
C15_Witness ==
    /\ actor = "dropped"
    /\ \E i, j \in 1..Len(calls) :
          /\ calls[i].kind = "Send" /\ calls[i].afterClose /\ calls[i].status = "err"
          /\ calls[j].kind = "Close" /\ calls[j].afterClose /\ calls[j].status = "err"
    /\ Len(wsWritten) >= 1

\* C16: a stored session is invalid after expired_after: load returns no
\* state for a key whose row is still stored with expired_after earlier
\* than the time load read from the clock (and the stored state up to
\* then); update and update_ttl set the row's expired_after to the time
\* they read from the clock plus ttl.
C16_ExpiredSessionInvalid ==
    /\ (dbDone.op = "load" /\ rows[dbDone.key].present) =>
          /\ rows[dbDone.key].expired_after < dbDone.at =>
                dbDone.result = NoState
          /\ rows[dbDone.key].expired_after >= dbDone.at =>
                dbDone.result = Some(rows[dbDone.key].session_state.json)
    /\ (dbDone.op \in {"update", "update_ttl"} /\ rows[dbDone.key].present) =>
          rows[dbDone.key].expired_after = dbDone.at + dbDone.ttl

\* load found the row of an expired session and returned no state
C16_Witness ==
    /\ dbDone.op = "load"
    /\ rows[dbDone.key].present
    /\ rows[dbDone.key].expired_after < dbDone.at
    /\ dbDone.result = NoState

\* A step changes the stored data key of a session only by completing a
\* finish_login that succeeds
DataChangedBySuccessOnly ==
    \A s \in Sessions :
        store'[s][DataKey] # store[s][DataKey] =>
           /\ done'.pc = "done" /\ done'.handler = "finish_login" /\ done'.sid = s
           /\ done'.result = Found(PostAuthUrl)

\* C21: login writes only the request key: the stored data key is left
\* unchanged by login, and by every other step, until a finish_login
\* succeeds and replaces it.
C21_DataUnchangedUntilSuccess == [][DataChangedBySuccessOnly]_vars

\* Frames reach the Receiver in the order the actor received them
DeliveredInOrder == rx # "dropped" => \A i \in 1..Len(Delivered) : Delivered[i] = i
\* No frame the actor received is dropped on the way to a live Receiver
NoneLost ==
    rx # "dropped" =>
       IF actor = "dropped" THEN Len(Delivered) = incoming
       ELSE Len(Delivered) + Len(futures) + Len(spawned) = incoming

\* C22: while the Receiver is alive, the messages the WebSocketActor received
\* are delivered to Receiver.recv in the order it received them, none lost,
\* none duplicated.
C22_DeliveredInOrderNoneLost == DeliveredInOrder /\ NoneLost

\* C23: with the Receiver dropped, it is the next message arriving that
\* stops the actor: a forward that fails and stops the actor is that of a
\* frame which arrived after the drop, and while none arrives the websocket
\* stays open.
C23_StopsOnNextMessageOnly ==
    stoppedBy.cause = "forward" => stoppedBy.frame > droppedAt

\* The actor stops for one of three reasons, and for a failed forward only
\* with the Receiver gone; after the stop no later send or close returns Ok
StoppedForCause ==
    /\ actor = "running" <=> stoppedBy = NotStopped
    /\ stoppedBy.cause \in {"none", "close", "peer", "forward"}
    /\ stoppedBy.cause = "forward" =>
          /\ rx = "dropped"
          /\ stoppedBy.frame \in 1..incoming
    /\ actor # "running" =>
          \A i \in 1..Len(calls) :
             calls[i].afterClose =>
                /\ calls[i].status # "ok"
                /\ actor = "dropped" => calls[i].status = "err"
\* With the Receiver gone: dropping it stops nothing; the poll of a pending
\* SendFuture stops the running actor; until then a queued send that is
\* handled is written and returns Ok
StopsOnFailedForward ==
    /\ (rx # "dropped" /\ rx' = "dropped") => actor' = actor
    /\ (rx = "dropped" /\ actor = "running" /\ futures # <<>>
          /\ futures' # futures) =>
          /\ actor' = "stopped"
          /\ stoppedBy' = [cause |-> "forward",
                           frame |-> futures[IF cursor = 0 THEN 1 ELSE cursor]]
    /\ (rx = "dropped" /\ actor = "running" /\ mailbox # <<>>
          /\ mailbox' = Tail(mailbox)) =>
          /\ calls'[Head(mailbox)].status = "ok"
          /\ calls[Head(mailbox)].kind = "Send" =>
                /\ wsWritten' = Append(wsWritten, Head(mailbox))
                /\ actor' = "running"

\* C23, amended: with the Receiver dropped, the next SendFuture the actor
\* polls fails and stops the actor, whether its message arrives after the
\* drop or had arrived before and was still to be forwarded; afterwards
\* Sender.send returns Err.  Dropping the Receiver does not itself stop the
\* actor, and while the actor runs Sender.send keeps succeeding.
C23_StopsOnNextForward == []StoppedForCause /\ [][StopsOnFailedForward]_vars

\* A frame arrived after the Receiver was dropped, its forward stopped the
\* actor, a send made before had succeeded and one made after got Err
C23_Witness ==
    /\ rx = "dropped"
    /\ actor = "dropped"
    /\ stoppedBy.cause = "forward"
    /\ stoppedBy.frame > droppedAt
    /\ \E i, j \in 1..Len(calls) :
          /\ calls[i].kind = "Send" /\ calls[i].status = "ok"
          /\ calls[j].kind = "Send" /\ calls[j].afterClose /\ calls[j].status = "err"

\* C24: after an update(key, state, ttl) that returned Ok, a load(key) before
\* the new expiry returns that state, for every key, also one without a row.
C24_UpdateThenLoad ==
    (dbDone.op = "update" /\ now <= dbDone.at + dbDone.ttl) =>
       load(rows, dbDone.key, now) = dbDone.result

====
